---- MODULE Spec2Model ----
(***************************************************************************)
(* Model of the C++ unit test generator pipeline:                          *)
(*   scripts/llm_client.py        LLMClient.generate (retry loop)          *)
(*   scripts/test_generator.py    main, TestGenerator.generate_tests,      *)
(*                                _extract_cpp_code                        *)
(*   scripts/cpp_analyzer.py      CppAnalyzer.find_cpp_files, analyze_file *)
(*   scripts/build_manager.py     BuildManager.build / run_tests           *)
(*   scripts/coverage_analyzer.py CoverageAnalyzer.analyze                 *)
(* Each component is a sequential procedure; its position is a pc          *)
(* variable, its environment (backend replies, process outcomes, the file  *)
(* system) is drawn from small sets.  Each component has its own           *)
(* specification (SpecLLM, SpecGen, SpecExtract, SpecFind, SpecBuild,      *)
(* SpecTests, SpecCov, SpecAnalyze); the variables of the other components *)
(* stay idle.                                                              *)
(***************************************************************************)
EXTENDS Integers, Sequences, FiniteSets, TLC

VARIABLES
    \* ---- LLMClient ----
    provider,       \* config['llm_settings']['provider']
    max_retries,    \* request_settings.get('max_retries', 3)
    retry_delay,    \* request_settings.get('retry_delay', 2)
    llm_pc,         \* "loop" | "returned" | "raised"
    attempt,        \* loop variable of `for attempt in range(max_retries)`
    calls,          \* history: outcome kind of every backend call made
    delays,         \* history: every time.sleep() argument, with the attempt it followed
    replies,        \* history: what the backend answered to each call
    llm_result,     \* value returned by generate
    \* ---- TestGenerator.generate_tests ----
    config_found,   \* the file named by --config can be opened
    config,         \* self.config: "none" before construction, then its origin
    run_log,        \* history: the exit code of every earlier run into out_dir
    input_is_dir,   \* os.path.isdir(args.input)
    exit_code,      \* "none" while main runs, then the argument of sys.exit
    cpp_files,      \* the sorted list find_cpp_files returned
    gen_pc,         \* "main" | "start" | "loop" | "done" | "exited"
    gen_idx,        \* position of `for cpp_file in cpp_files` (1-based)
    generated_tests,\* dict test_filename -> [code, source_file]
    out_dir,        \* the output directory: [exists, files: name -> content]
    gen_result,     \* "pending" | "True" | "False"
    attempted,      \* history: the files _generate_initial_test was called for
    produced,       \* history: the files whose test_code was truthy
    extracted,      \* history: what _generate_initial_test returned for each attempted file
    \* ---- BuildManager.build ----
    build_pc,       \* "NotConfigured" | "Configuring" | "Configured" | "Succeeded" | "Failed"
    cmake_result,   \* what _run_cmake_configure returned
    build_result,   \* what build returned
    configure_calls,\* history: outcome of every configure subprocess
    compile_calls,  \* history: outcome of every compile subprocess
    \* ---- BuildManager.run_tests ----
    build_fs,       \* the build directory: candidate path -> kind of entry
    tests_pc,       \* "call" | "done"
    tests_result,   \* what run_tests returned
    exec_calls,     \* history: [exe, outcome] of every test process started
    \* ---- CoverageAnalyzer.analyze ----
    cov_fs,         \* the files under the build directory
    cov_pc,         \* "call" | "gcov" | "done"
    gcda_todo,      \* the .gcda files the loop has not reached yet
    coverage_output,\* the concatenated gcov output, as lines
    gcov_calls,     \* history: [file, cwd, outcome] of every gcov process started
    cov_report,     \* what analyze returned
    \* ---- TestGenerator._extract_cpp_code ----
    ext_response,   \* the response text handed to _extract_cpp_code
    ext_pc,         \* "call" | "done"
    ext_code,       \* what _extract_cpp_code returned
    \* ---- CppAnalyzer.find_cpp_files ----
    find_tree,      \* the files under the directory: [dir, name]
    find_pc,        \* "call" | "done"
    find_walk,      \* cpp_files before sorting, in the order os.walk met the files
    find_result,    \* what find_cpp_files returned
    \* ---- CppAnalyzer.analyze_file ----
    an_opened,      \* what open(file_path) does: "ok" or the exception it raises
    an_content,     \* the lines f.read() gives
    an_pc,          \* "call" | "done"
    an_unit         \* what analyze_file returned

llm_vars == <<provider, max_retries, retry_delay, llm_pc, attempt, calls, replies, delays,
              llm_result>>

gen_vars == <<config_found, config, run_log, input_is_dir, exit_code, cpp_files, gen_pc, gen_idx, generated_tests,
              out_dir, gen_result, attempted, produced, extracted>>

build_vars == <<build_pc, cmake_result, build_result, configure_calls, compile_calls>>

tests_vars == <<build_fs, tests_pc, tests_result, exec_calls>>

cov_vars == <<cov_fs, cov_pc, gcda_todo, coverage_output, gcov_calls, cov_report>>

ext_vars == <<ext_response, ext_pc, ext_code>>

find_vars == <<find_tree, find_pc, find_walk, find_result>>

an_vars == <<an_opened, an_content, an_pc, an_unit>>

vars == <<llm_vars, gen_vars, build_vars, tests_vars, cov_vars, ext_vars, find_vars, an_vars>>

\* what the actions of one component leave alone
not_llm == <<gen_vars, build_vars, tests_vars, cov_vars, ext_vars, find_vars, an_vars>>
not_gen == <<llm_vars, build_vars, tests_vars, cov_vars, ext_vars, find_vars, an_vars>>
not_build == <<llm_vars, gen_vars, tests_vars, cov_vars, ext_vars, find_vars, an_vars>>
not_tests == <<llm_vars, gen_vars, build_vars, cov_vars, ext_vars, find_vars, an_vars>>
not_cov == <<llm_vars, gen_vars, build_vars, tests_vars, ext_vars, find_vars, an_vars>>
not_ext == <<llm_vars, gen_vars, build_vars, tests_vars, cov_vars, find_vars, an_vars>>
not_find == <<llm_vars, gen_vars, build_vars, tests_vars, cov_vars, ext_vars, an_vars>>
not_an == <<llm_vars, gen_vars, build_vars, tests_vars, cov_vars, ext_vars, find_vars>>

-----------------------------------------------------------------------------
(* Generated text is a sequence of tokens: a fence marker, a language tag,  *)
(* whitespace, or a piece of text.                                          *)
FENCE == "FENCE"
TAG == "cpp"
WS == " "
\* a language tag the extraction pattern does not list
LANG == "c"

Responses ==
    { <<>>,
      <<WS>>,
      <<"T1">>,
      <<WS, "T1", WS, "T2", WS>>,
      <<FENCE, TAG, WS, "T1", WS, FENCE>>,
      <<"T2", FENCE, WS, FENCE, "T1">> }

None == [kind |-> "none"]
Text(t) == [kind |-> "text", text |-> t]

-----------------------------------------------------------------------------
(* LLMClient                                                                *)

MaxRetries == 3
RetryDelays == {0, 2}

Supported == {"ollama", "openai", "github"}
Providers == Supported \cup {"azure"}

\* What the backend does with one request: no answer at all (transport
\* failure), or an HTTP status with a body.
Replies ==
    {[kind |-> "transport"]}
        \cup [kind : {"status"}, status : {200, 500}, body : Responses]

\* faulty variant: one iteration too many
RangeLenOffByOne(n) == IF n > 0 THEN n + 1 ELSE 1

\* len(range(n))
RangeLen(n) == IF n > 0 THEN n ELSE 0

\* faulty variant: the status of the response is not looked at
BackendCallAnyStatus(reply) ==
    IF reply.kind = "status"
        THEN [raised |-> FALSE, value |-> Text(reply.body)]
        ELSE [raised |-> TRUE, value |-> None]

\* _generate_ollama / _generate_openai / _generate_github: the text of a
\* success response, an exception for anything else.
BackendCall(reply) ==
    IF reply.kind = "status" /\ reply.status = 200
        THEN [raised |-> FALSE, value |-> Text(reply.body)]
        ELSE [raised |-> TRUE, value |-> None]

\* faulty variant: sleep after every failed iteration, the last one included
HandleFailureAlwaysSleeps ==
    /\ delays' = Append(delays, [after |-> attempt, seconds |-> retry_delay])
    /\ attempt' = attempt + 1
    /\ UNCHANGED <<llm_pc, llm_result>>

\* The except clause of one iteration: sleep unless this was the last one.
HandleFailure ==
    /\ delays' = IF attempt < max_retries - 1
                    THEN Append(delays, [after |-> attempt, seconds |-> retry_delay])
                    ELSE delays
    /\ attempt' = attempt + 1
    /\ UNCHANGED <<llm_pc, llm_result>>

\* One iteration of the loop with a supported provider: exactly one backend
\* call.
LLMAttempt(reply) ==
    /\ llm_pc = "loop"
    /\ attempt < RangeLen(max_retries)
    /\ provider \in Supported
    /\ calls' = Append(calls, IF BackendCall(reply).raised THEN "failed" ELSE "ok")
    /\ replies' = Append(replies, reply)
    /\ IF BackendCall(reply).raised
          THEN HandleFailure
          ELSE /\ llm_pc' = "returned"
               /\ llm_result' = BackendCall(reply).value
               /\ UNCHANGED <<attempt, delays>>
    /\ UNCHANGED <<provider, max_retries, retry_delay>>
    /\ UNCHANGED not_llm

\* One iteration with an unsupported provider: ValueError is raised inside
\* the try block and caught by `except Exception` like any backend failure.
LLMUnsupported ==
    /\ llm_pc = "loop"
    /\ attempt < RangeLen(max_retries)
    /\ provider \notin Supported
    /\ HandleFailure
    /\ UNCHANGED <<provider, max_retries, retry_delay, calls, replies>>
    /\ UNCHANGED not_llm

\* The loop is exhausted: `return None`.
LLMReturnNone ==
    /\ llm_pc = "loop"
    /\ attempt >= RangeLen(max_retries)
    /\ llm_pc' = "returned"
    /\ llm_result' = None
    /\ UNCHANGED <<provider, max_retries, retry_delay, attempt, calls, replies, delays>>
    /\ UNCHANGED not_llm

LLMStart ==
    /\ provider \in Providers
    /\ max_retries \in 0..MaxRetries
    /\ retry_delay \in RetryDelays
    /\ llm_pc = "loop"
    /\ attempt = 0
    /\ calls = <<>>
    /\ replies = <<>>
    /\ delays = <<>>
    /\ llm_result = None

LLMNext ==
    \/ \E reply \in Replies : LLMAttempt(reply)
    \/ LLMUnsupported
    \/ LLMReturnNone

\* The client is constructed but generate is not running.
LLMIdle ==
    /\ provider = "ollama"
    /\ max_retries = 3
    /\ retry_delay = 2
    /\ llm_pc = "returned"
    /\ attempt = 0
    /\ calls = <<>>
    /\ replies = <<>>
    /\ delays = <<>>
    /\ llm_result = None

-----------------------------------------------------------------------------
(* TestGenerator                                                            *)

\* str.strip() on a token sequence
RECURSIVE LStrip(_)
LStrip(s) == IF s # <<>> /\ Head(s) = WS THEN LStrip(Tail(s)) ELSE s

RECURSIVE RStrip(_)
RStrip(s) ==
    IF s # <<>> /\ s[Len(s)] = WS THEN RStrip(SubSeq(s, 1, Len(s) - 1)) ELSE s

Strip(s) == RStrip(LStrip(s))

\* positions of the fence markers of a response, ascending
FencePositions(s) == {i \in 1..Len(s) : s[i] = FENCE}

Min(S) == CHOOSE x \in S : \A y \in S : x <= y

\* _extract_cpp_code: the regex takes the first fence, an optional language
\* tag, and lazily everything up to the next fence; without two fences the
\* whole response is the code.  Both are stripped.
ExtractCppCode(response) ==
    IF Cardinality(FencePositions(response)) >= 2
        THEN LET i == Min(FencePositions(response))
                 j == Min(FencePositions(response) \ {i})
                 k == IF i + 1 < j /\ response[i + 1] = TAG THEN i + 2 ELSE i + 1
             IN  Strip(SubSeq(response, k, j - 1))
        ELSE Strip(response)

\* faulty variant: only None counts as no result
NotNone(r) == r.kind = "text"

\* Python truthiness of an Optional[str]
Truthy(r) == r.kind = "text" /\ r.text # <<>>

\* _generate_initial_test: None when the source cannot be read or generate
\* returned nothing (or an empty response), else the extracted code.
GenerateInitialTest(readable, response) ==
    IF readable /\ Truthy(response)
        THEN Text(ExtractCppCode(response.text))
        ELSE None

\* Source files, as find_cpp_files lists them: sorted by path.
AllSources ==
    << [dir |-> <<"src">>, stem |-> "a", suffix |-> ".cc"],
       [dir |-> <<"src">>, stem |-> "a", suffix |-> ".cpp"],
       [dir |-> <<"src">>, stem |-> "b", suffix |-> ".cpp"],
       [dir |-> <<"src", "sub">>, stem |-> "a", suffix |-> ".cpp"] >>

\* the subsequence of s at the positions in S
RECURSIVE Pick(_, _)
Pick(s, S) ==
    IF s = <<>> THEN <<>>
    ELSE LET rest == Pick(Tail(s), {i - 1 : i \in S \ {1}})
         IN  IF 1 \in S THEN <<Head(s)>> \o rest ELSE rest

\* f"test_{Path(cpp_file).stem}.cpp"
TestFilename(cpp_file) == <<"test_", cpp_file.stem, ".cpp">>

CMakeName == <<"CMakeLists", ".txt">>
CMakeContent == <<"cmake_minimum_required", "run_tests">>

EmptyDict == [n \in {} |-> None]

\* generated_tests[test_filename] = {...}
DictSet(d, key, value) ==
    [n \in DOMAIN d \cup {key} |-> IF n = key THEN value ELSE d[n]]

\* faulty variant: the build descriptor is opened for appending
SaveTestsAppending(dir, tests) ==
    [exists |-> TRUE,
     files |-> [n \in DOMAIN dir.files \cup DOMAIN tests \cup {CMakeName} |->
                  IF n = CMakeName
                      THEN (IF n \in DOMAIN dir.files THEN dir.files[n] ELSE <<>>)
                              \o CMakeContent
                  ELSE IF n \in DOMAIN tests THEN tests[n].code
                  ELSE dir.files[n]]]

\* faulty variant: the tests are written, the build descriptor is not
SaveTestsOnly(dir, tests) ==
    [exists |-> TRUE,
     files |-> [n \in DOMAIN dir.files \cup DOMAIN tests |->
                  IF n \in DOMAIN tests THEN tests[n].code ELSE dir.files[n]]]

\* Step 3 and 4: makedirs, one write per generated test, the build descriptor.
SaveTests(dir, tests) ==
    [exists |-> TRUE,
     files |-> [n \in DOMAIN dir.files \cup DOMAIN tests \cup {CMakeName} |->
                  IF n = CMakeName THEN CMakeContent
                  ELSE IF n \in DOMAIN tests THEN tests[n].code
                  ELSE dir.files[n]]]

\* _load_config: the parsed file, or the built-in settings when the file is
\* not found.
LoadConfig(found) == IF found THEN "file" ELSE "default"

\* main, up to the call of generate_tests: a missing input directory ends the
\* process with exit code 1; otherwise the generator is constructed, which
\* loads the configuration.
MainCheckInput ==
    /\ gen_pc = "main"
    /\ IF input_is_dir
          THEN gen_pc' = "start" /\ exit_code' = exit_code
               /\ config' = LoadConfig(config_found)
          ELSE gen_pc' = "exited" /\ exit_code' = "1" /\ config' = config
    /\ UNCHANGED <<config_found, run_log, input_is_dir, cpp_files, gen_idx, generated_tests, out_dir,
                   gen_result, attempted, produced, extracted>>
    /\ UNCHANGED not_gen

\* faulty variant: the process always reports success
ExitAlwaysZero(success) == "0"

\* sys.exit(0 if success else 1)
ExitCode(success) == IF success THEN "0" ELSE "1"

\* main, after generate_tests returned.
MainExit ==
    /\ gen_pc = "done"
    /\ gen_result # "pending"
    /\ gen_pc' = "exited"
    /\ exit_code' = ExitCode(gen_result = "True")
    /\ UNCHANGED <<config_found, config, run_log, input_is_dir, cpp_files, gen_idx, generated_tests, out_dir,
                   gen_result, attempted, produced, extracted>>
    /\ UNCHANGED not_gen

\* Step 1: `if not cpp_files: return False`
GenFind ==
    /\ gen_pc = "start"
    /\ IF cpp_files = <<>>
          THEN gen_pc' = "done" /\ gen_result' = "False"
          ELSE gen_pc' = "loop" /\ gen_result' = gen_result
    /\ UNCHANGED <<config_found, config, run_log, input_is_dir, exit_code, cpp_files, gen_idx, generated_tests,
                   out_dir, attempted, produced, extracted>>
    /\ UNCHANGED not_gen

\* faulty variant: a file without a result aborts the batch
GenAfterFileAborts(test_code) == IF Truthy(test_code) THEN "loop" ELSE "aborted"

\* where the loop goes after one file: always on to the next file
GenAfterFile(test_code) == "loop"

\* Step 2, one iteration: generate a test for cpp_files[gen_idx].
GenProcess(readable, response) ==
    /\ gen_pc = "loop"
    /\ gen_idx <= Len(cpp_files)
    /\ LET cpp_file == cpp_files[gen_idx]
           test_code == GenerateInitialTest(readable, response)
       IN  /\ attempted' = Append(attempted, cpp_file)
           /\ extracted' = Append(extracted, test_code)
           /\ IF Truthy(test_code)
                 THEN /\ generated_tests' =
                            DictSet(generated_tests, TestFilename(cpp_file),
                                    [code |-> test_code.text, source_file |-> cpp_file])
                      /\ produced' = Append(produced, cpp_file)
                 ELSE UNCHANGED <<generated_tests, produced>>
           /\ IF GenAfterFile(test_code) = "loop"
                 THEN /\ gen_idx' = gen_idx + 1
                      /\ UNCHANGED <<gen_pc, gen_result>>
                 ELSE /\ gen_pc' = "done"
                      /\ gen_result' = "False"
                      /\ UNCHANGED gen_idx
    /\ UNCHANGED <<config_found, config, run_log, input_is_dir, exit_code, cpp_files, out_dir>>
    /\ UNCHANGED not_gen

\* faulty variant: the output directory is created before the check for tests
GenSaveMakedirsFirst ==
    /\ gen_pc = "loop"
    /\ gen_idx > Len(cpp_files)
    /\ gen_pc' = "done"
    /\ IF generated_tests = EmptyDict
          THEN gen_result' = "False" /\ out_dir' = [out_dir EXCEPT !.exists = TRUE]
          ELSE gen_result' = "True" /\ out_dir' = SaveTests(out_dir, generated_tests)
    /\ UNCHANGED <<config_found, config, run_log, input_is_dir, exit_code, cpp_files, gen_idx,
                   generated_tests, attempted, produced, extracted>>
    /\ UNCHANGED not_gen

\* After the loop: fail without tests, else save everything and succeed.
GenSave ==
    /\ gen_pc = "loop"
    /\ gen_idx > Len(cpp_files)
    /\ gen_pc' = "done"
    /\ IF generated_tests = EmptyDict
          THEN gen_result' = "False" /\ UNCHANGED out_dir
          ELSE gen_result' = "True" /\ out_dir' = SaveTests(out_dir, generated_tests)
    /\ UNCHANGED <<config_found, config, run_log, input_is_dir, exit_code, cpp_files, gen_idx, generated_tests,
                   attempted, produced, extracted>>
    /\ UNCHANGED not_gen

\* Output directories a run may start from.
OutDirs ==
    { [exists |-> FALSE, files |-> EmptyDict],
      [exists |-> TRUE, files |-> EmptyDict],
      [exists |-> TRUE,
       files |-> [n \in {<<"test_", "b", ".cpp">>, CMakeName} |-> <<"old">>]] }

MaxRuns == 2

\* The source files a run may find.
SourceLists == {Pick(AllSources, S) : S \in SUBSET (1..Len(AllSources))}

\* The command is run again, with the output directory as the earlier runs
\* left it.
GenRerun(found, is_dir, files) ==
    /\ gen_pc = "exited"
    /\ Len(run_log) + 1 < MaxRuns
    /\ ~is_dir => files = <<>>
    /\ run_log' = Append(run_log, exit_code)
    /\ config_found' = found
    /\ config' = "none"
    /\ input_is_dir' = is_dir
    /\ exit_code' = "none"
    /\ cpp_files' = files
    /\ gen_pc' = "main"
    /\ gen_idx' = 1
    /\ generated_tests' = EmptyDict
    /\ gen_result' = "pending"
    /\ attempted' = <<>>
    /\ produced' = <<>>
    /\ extracted' = <<>>
    /\ UNCHANGED out_dir
    /\ UNCHANGED not_gen

\* The command is started: the input path may or may not be a directory;
\* nothing is found under a path that is not one.
GenStart ==
    /\ config_found \in BOOLEAN
    /\ config = "none"
    /\ run_log = <<>>
    /\ input_is_dir \in BOOLEAN
    /\ exit_code = "none"
    /\ cpp_files \in SourceLists
    /\ ~input_is_dir => cpp_files = <<>>
    /\ gen_pc = "main"
    /\ gen_idx = 1
    /\ generated_tests = EmptyDict
    /\ out_dir \in OutDirs
    /\ gen_result = "pending"
    /\ attempted = <<>>
    /\ produced = <<>>
    /\ extracted = <<>>

GenIdle ==
    /\ config_found = TRUE
    /\ config = "none"
    /\ run_log = <<>>
    /\ input_is_dir = TRUE
    /\ exit_code = "none"
    /\ cpp_files = <<>>
    /\ gen_pc = "done"
    /\ gen_idx = 1
    /\ generated_tests = EmptyDict
    /\ out_dir = [exists |-> FALSE, files |-> EmptyDict]
    /\ gen_result = "pending"
    /\ attempted = <<>>
    /\ produced = <<>>
    /\ extracted = <<>>

\* What LLMClient.generate can hand back: None or any text.
GenerateResults == {None} \cup {Text(r) : r \in Responses}

GenNext ==
    \/ MainCheckInput
    \/ GenFind
    \/ \E readable \in BOOLEAN, response \in GenerateResults :
           GenProcess(readable, response)
    \/ GenSave
    \/ MainExit
    \/ \E found \in BOOLEAN, is_dir \in BOOLEAN, files \in SourceLists :
          GenRerun(found, is_dir, files)

-----------------------------------------------------------------------------
(* TestGenerator._extract_cpp_code on its own                               *)

MaxTokens == 4

Tokens == {FENCE, TAG, LANG, WS, "T1"}

\* every response of at most MaxTokens tokens
ResponseTexts == UNION {[1..k -> Tokens] : k \in 0..MaxTokens}

ExtractCall ==
    /\ ext_pc = "call"
    /\ ext_code' = ExtractCppCode(ext_response)
    /\ ext_pc' = "done"
    /\ UNCHANGED ext_response
    /\ UNCHANGED not_ext

ExtractStart ==
    /\ ext_response \in ResponseTexts
    /\ ext_pc = "call"
    /\ ext_code = <<>>

ExtractIdle ==
    /\ ext_response = <<>>
    /\ ext_pc = "done"
    /\ ext_code = <<>>

ExtractNext == ExtractCall

-----------------------------------------------------------------------------
(* CppAnalyzer.find_cpp_files                                               *)
(* A file or directory name is a sequence of characters, a path string is   *)
(* the sequence of the characters of its components joined by "/".          *)

cpp_extensions == {<<".", "c", "p", "p">>, <<".", "c", "c">>, <<".", "c", "x", "x">>, <<".", "c", "+", "+">>}

SkippedDirs == {<<"b", "u", "i", "l", "d">>, <<"c", "m", "a", "k", "e", "-", "b", "u", "i", "l", "d", "-", "d", "e", "b", "u", "g">>, <<"c", "m", "a", "k", "e", "-", "b", "u", "i", "l", "d", "-", "r", "e", "l", "e", "a", "s", "e">>, <<".", "g", "i", "t">>}

\* the directory find_cpp_files is called with
TopDir == <<"s", "r", "c">>

\* The files a tree may hold, below TopDir.
TreeFiles ==
    { [dir |-> <<>>, name |-> <<"a", ".", "c", "p", "p">>],
      [dir |-> <<>>, name |-> <<"a", ".", "h">>],
      [dir |-> <<<<"b", "u", "i", "l", "d">>>>, name |-> <<"a", ".", "c", "p", "p">>],
      [dir |-> <<<<"s", "u", "b">>>>, name |-> <<"b", ".", "c", "c">>],
      [dir |-> <<<<"s", "u", "b">>, <<".", "g", "i", "t">>>>, name |-> <<"c", ".", "c", "x", "x">>],
      [dir |-> <<<<"a", "-", "b">>>>, name |-> <<"c", ".", "c", "+", "+">>],
      [dir |-> <<<<"s", "u", "b">>>>, name |-> <<"b", "u", "i", "l", "d", ".", "c", "p", "p">>],
      [dir |-> <<>>, name |-> <<".", "c", "p", "p">>] }

\* Path(file).suffix: from the last dot, unless the dot is the first or the
\* last character of the name
Suffix(name) ==
    LET dots == {i \in 1..Len(name) : name[i] = "."}
    IN  IF dots = {} THEN <<>>
        ELSE LET i == CHOOSE x \in dots : \A y \in dots : y <= x
             IN  IF 1 < i /\ i < Len(name) THEN SubSeq(name, i, Len(name)) ELSE <<>>

\* os.path.join(root, file), root being TopDir extended by the directories walked
RECURSIVE JoinPath(_, _)
JoinPath(root, names) ==
    IF names = <<>> THEN root
    ELSE JoinPath(root \o <<"/">> \o Head(names), Tail(names))

PathString(f) == JoinPath(TopDir, f.dir \o <<f.name>>)

\* the subdirectory names os.walk lists in directory d
DirNames(tree, d) ==
    {f.dir[Len(d) + 1] : f \in {g \in tree : Len(g.dir) > Len(d) /\ SubSeq(g.dir, 1, Len(d)) = d}}

\* faulty variant: no directory is skipped
KeepAllDirs(dirs) == dirs

\* dirs[:] = [d for d in dirs if d not in {...}]
KeptDirs(dirs) == dirs \ SkippedDirs

\* the paths appended while os.walk visits directory d and what is below it
RECURSIVE WalkFrom(_, _)
WalkFrom(tree, d) ==
    {PathString(f) : f \in {g \in tree : g.dir = d /\ Suffix(g.name) \in cpp_extensions}}
        \cup UNION {WalkFrom(tree, d \o <<n>>) : n \in KeptDirs(DirNames(tree, d))}

\* the code point of a character
Ord(c) ==
    CASE c = "+" -> 43 [] c = "-" -> 45 [] c = "." -> 46 [] c = "/" -> 47
      [] c = "a" -> 97 [] c = "b" -> 98 [] c = "c" -> 99 [] c = "d" -> 100
      [] c = "g" -> 103 [] c = "h" -> 104 [] c = "i" -> 105 [] c = "l" -> 108
      [] c = "p" -> 112 [] c = "r" -> 114 [] c = "s" -> 115 [] c = "t" -> 116
      [] c = "u" -> 117 [] c = "x" -> 120

\* str < str
RECURSIVE StrLess(_, _)
StrLess(a, b) ==
    IF b = <<>> THEN FALSE
    ELSE IF a = <<>> THEN TRUE
    ELSE IF Head(a) = Head(b) THEN StrLess(Tail(a), Tail(b))
    ELSE Ord(Head(a)) < Ord(Head(b))

RECURSIVE InsertSorted(_, _)
InsertSorted(sorted, x) ==
    IF sorted = <<>> THEN <<x>>
    ELSE IF StrLess(x, Head(sorted)) THEN <<x>> \o sorted
    ELSE <<Head(sorted)>> \o InsertSorted(Tail(sorted), x)

\* sorted(cpp_files)
RECURSIVE Sorted(_)
Sorted(list) ==
    IF list = <<>> THEN <<>>
    ELSE InsertSorted(Sorted(SubSeq(list, 1, Len(list) - 1)), list[Len(list)])

\* every order in which the members of S can be met
RECURSIVE Orders(_)
Orders(S) ==
    IF S = {} THEN {<<>>}
    ELSE UNION {{<<x>> \o w : w \in Orders(S \ {x})} : x \in S}

\* The whole call: the walk appends the files in the order the file system
\* lists them, the result is the sorted list.
FindCppFiles(walk) ==
    /\ find_pc = "call"
    /\ walk \in Orders(WalkFrom(find_tree, <<>>))
    /\ find_walk' = walk
    /\ find_result' = Sorted(walk)
    /\ find_pc' = "done"
    /\ UNCHANGED find_tree
    /\ UNCHANGED not_find

FindStart ==
    /\ find_tree \in SUBSET TreeFiles
    /\ find_pc = "call"
    /\ find_walk = <<>>
    /\ find_result = <<>>

FindIdle ==
    /\ find_tree = {}
    /\ find_pc = "done"
    /\ find_walk = <<>>
    /\ find_result = <<>>

FindNext ==
    \E walk \in Orders(WalkFrom(find_tree, <<>>)) : FindCppFiles(walk)

-----------------------------------------------------------------------------
(* BuildManager                                                             *)

ConfigureTimeout == 120
BuildTimeout == 300
TestTimeout == 60

\* How long a started process runs, in seconds.
Durations == {60, 200, 400}

\* What starting a process can do: the executable is missing, it cannot be
\* executed, or it runs for some time and exits.
ProcOutcomes ==
    [kind : {"FileNotFoundError", "PermissionError"}]
        \cup [kind : {"ran"}, duration : Durations, returncode : {0, 1, 2},
              stdout : {"", "out"}, stderr : {"", "err"}]

\* str(e)
StrOf(exc) ==
    CASE exc = "FileNotFoundError" -> "[Errno 2] No such file or directory"
      [] exc = "PermissionError" -> "[Errno 13] Permission denied"

\* faulty variant: every step is held to the budget of the configure step
RunSharedBudget(outcome, timeout) ==
    IF outcome.kind = "ran"
        THEN IF outcome.duration > 120 THEN "TimeoutExpired" ELSE "completed"
        ELSE outcome.kind

\* subprocess.run(cmd, timeout=...): how the call ends
Run(outcome, timeout) ==
    IF outcome.kind = "ran"
        THEN IF outcome.duration > timeout THEN "TimeoutExpired" ELSE "completed"
        ELSE outcome.kind

\* the classification of a missing build tool
MissingToolError == "CMake not found"

\* _run_cmake_configure
RunCmakeConfigure(outcome) ==
    CASE Run(outcome, ConfigureTimeout) = "completed" ->
            [success |-> outcome.returncode = 0,
             returncode |-> outcome.returncode,
             stdout |-> outcome.stdout,
             stderr |-> outcome.stderr,
             log |-> <<"CMAKE STDOUT:", outcome.stdout, "CMAKE STDERR:", outcome.stderr>>]
      [] Run(outcome, ConfigureTimeout) = "TimeoutExpired" ->
            [success |-> FALSE,
             error |-> "CMake configuration timeout",
             log |-> <<"CMake configuration timed out after 120 seconds">>]
      [] Run(outcome, ConfigureTimeout) = "FileNotFoundError" ->
            [success |-> FALSE,
             error |-> MissingToolError,
             log |-> <<"CMake executable not found. Please install CMake.">>]
      [] OTHER ->
            [success |-> FALSE,
             error |-> StrOf(Run(outcome, ConfigureTimeout)),
             log |-> <<"CMake configuration failed:", StrOf(Run(outcome, ConfigureTimeout))>>]

\* _run_build: no handler of its own for a missing executable
RunBuild(outcome) ==
    CASE Run(outcome, BuildTimeout) = "completed" ->
            [success |-> outcome.returncode = 0,
             returncode |-> outcome.returncode,
             stdout |-> outcome.stdout,
             stderr |-> outcome.stderr,
             log |-> <<"BUILD STDOUT:", outcome.stdout, "BUILD STDERR:", outcome.stderr>>]
      [] Run(outcome, BuildTimeout) = "TimeoutExpired" ->
            [success |-> FALSE,
             error |-> "Build timeout",
             log |-> <<"Build timed out after 300 seconds">>]
      [] OTHER ->
            [success |-> FALSE,
             error |-> StrOf(Run(outcome, BuildTimeout)),
             log |-> <<"Build failed:", StrOf(Run(outcome, BuildTimeout))>>]

NoResult == [pending |-> TRUE]

\* build, up to the configure step: os.makedirs(build_path, exist_ok=True)
BuildMakedirs(exc) ==
    /\ build_pc = "NotConfigured"
    /\ IF exc = "none"
          THEN /\ build_pc' = "Configuring"
               /\ UNCHANGED build_result
          ELSE /\ build_pc' = "Failed"
               /\ build_result' =
                     [success |-> FALSE,
                      error |-> StrOf(exc),
                      log |-> <<"Build failed with exception:", StrOf(exc)>>]
    /\ UNCHANGED <<cmake_result, configure_calls, compile_calls>>
    /\ UNCHANGED not_build

\* faulty variant: the compile step is started whatever the configure step returned
ConfigureGateOpen(result) == TRUE

\* `if not cmake_result['success']: return cmake_result`
ConfigureGate(result) == result.success

\* faulty variant: a configure step that timed out is started a second time
BuildConfigureRetrying(outcome) ==
    /\ build_pc = "Configuring"
    /\ cmake_result' = RunCmakeConfigure(outcome)
    /\ configure_calls' = Append(configure_calls, outcome)
    /\ IF ConfigureGate(cmake_result')
          THEN /\ build_pc' = "Configured"
               /\ UNCHANGED build_result
          ELSE IF Run(outcome, ConfigureTimeout) = "TimeoutExpired" /\ configure_calls = <<>>
          THEN /\ build_pc' = "Configuring"
               /\ UNCHANGED build_result
          ELSE /\ build_pc' = "Failed"
               /\ build_result' = cmake_result'
    /\ UNCHANGED compile_calls
    /\ UNCHANGED not_build

\* build, the configure step and the check of its result
BuildConfigure(outcome) ==
    /\ build_pc = "Configuring"
    /\ cmake_result' = RunCmakeConfigure(outcome)
    /\ configure_calls' = Append(configure_calls, outcome)
    /\ IF ConfigureGate(cmake_result')
          THEN /\ build_pc' = "Configured"
               /\ UNCHANGED build_result
          ELSE /\ build_pc' = "Failed"
               /\ build_result' = cmake_result'
    /\ UNCHANGED compile_calls
    /\ UNCHANGED not_build

\* build, the compile step: `return build_result`
BuildCompile(outcome) ==
    /\ build_pc = "Configured"
    /\ compile_calls' = Append(compile_calls, outcome)
    /\ build_result' = RunBuild(outcome)
    /\ build_pc' = IF build_result'.success THEN "Succeeded" ELSE "Failed"
    /\ UNCHANGED <<cmake_result, configure_calls>>
    /\ UNCHANGED not_build

BuildStart ==
    /\ build_pc = "NotConfigured"
    /\ cmake_result = NoResult
    /\ build_result = NoResult
    /\ configure_calls = <<>>
    /\ compile_calls = <<>>

BuildIdle ==
    /\ build_pc = "Idle"
    /\ cmake_result = NoResult
    /\ build_result = NoResult
    /\ configure_calls = <<>>
    /\ compile_calls = <<>>

BuildNext ==
    \/ \E exc \in {"none", "PermissionError"} : BuildMakedirs(exc)
    \/ \E outcome \in ProcOutcomes : BuildConfigure(outcome)
    \/ \E outcome \in ProcOutcomes : BuildCompile(outcome)

-----------------------------------------------------------------------------
(* BuildManager.run_tests                                                   *)

PossibleNames == <<"run_tests", "run_tests.exe", "tests", "tests.exe">>

\* Places of the build directory where something may be, and what is there:
\* nothing, an executable regular file, a regular file without the execute
\* permission, or a directory.
TestPaths ==
    { [dir |-> <<>>, name |-> "run_tests"],
      [dir |-> <<>>, name |-> "tests.exe"],
      [dir |-> <<"Debug">>, name |-> "run_tests.exe"],
      [dir |-> <<"Debug", "bin">>, name |-> "tests"] }

EntryKinds == {"absent", "file_x", "file", "dir"}

IsFile(fs, p) == p \in DOMAIN fs /\ fs[p] \in {"file_x", "file"}
AccessX(fs, p) == p \in DOMAIN fs /\ fs[p] \in {"file_x", "dir"}

IsStrictPrefix(d, e) == Len(d) < Len(e) /\ SubSeq(e, 1, Len(d)) = d

\* faulty variant: the conventional names are tried from the last to the first
RECURSIVE TopLevelReversed(_, _)
TopLevelReversed(fs, i) ==
    IF i > Len(PossibleNames) THEN None
    ELSE LET p == [dir |-> <<>>, name |-> PossibleNames[Len(PossibleNames) + 1 - i]]
         IN  IF IsFile(fs, p) /\ AccessX(fs, p)
                 THEN [kind |-> "path", path |-> p]
                 ELSE TopLevelReversed(fs, i + 1)

\* the first loop: the conventional names at the top level, in order
RECURSIVE TopLevelExecutable(_, _)
TopLevelExecutable(fs, i) ==
    IF i > Len(PossibleNames) THEN None
    ELSE LET p == [dir |-> <<>>, name |-> PossibleNames[i]]
         IN  IF IsFile(fs, p) /\ AccessX(fs, p)
                 THEN [kind |-> "path", path |-> p]
                 ELSE TopLevelExecutable(fs, i + 1)

\* the files os.walk lists that the second loop would return
WalkMatches(fs) ==
    {p \in DOMAIN fs :
        /\ IsFile(fs, p)
        /\ \E i \in 1..Len(PossibleNames) : p.name = PossibleNames[i]
        /\ AccessX(fs, p)}

\* _find_test_executable: every value it can return.  os.walk is top-down
\* and lists siblings in no particular order, so the walk can meet first any
\* match that has no match in a directory above it.
FindTestExecutable(fs) ==
    IF TopLevelExecutable(fs, 1) # None THEN {TopLevelExecutable(fs, 1)}
    ELSE IF WalkMatches(fs) = {} THEN {None}
    ELSE {[kind |-> "path", path |-> p] : p \in
            {q \in WalkMatches(fs) :
                \A r \in WalkMatches(fs) : ~IsStrictPrefix(r.dir, q.dir)}}

\* faulty variant: a missing executable is reported like a failed test run
NotFoundAsExitCode ==
    [success |-> FALSE,
     returncode |-> 1,
     stdout |-> "",
     stderr |-> "",
     log |-> <<"TEST STDOUT:", "", "TEST STDERR:", "">>]

\* the result for `if not test_executable`
ExecutableNotFound ==
    [success |-> FALSE,
     error |-> "Test executable not found",
     log |-> <<"Could not find test executable in build directory">>]

\* run_tests from the subprocess call on
RunTestProcess(outcome) ==
    CASE Run(outcome, TestTimeout) = "completed" ->
            [success |-> outcome.returncode = 0,
             returncode |-> outcome.returncode,
             stdout |-> outcome.stdout,
             stderr |-> outcome.stderr,
             log |-> <<"TEST STDOUT:", outcome.stdout, "TEST STDERR:", outcome.stderr>>]
      [] Run(outcome, TestTimeout) = "TimeoutExpired" ->
            [success |-> FALSE,
             error |-> "Test timeout",
             log |-> <<"Tests timed out after 60 seconds">>]
      [] OTHER ->
            [success |-> FALSE,
             error |-> StrOf(Run(outcome, TestTimeout)),
             log |-> <<"Test execution failed:", StrOf(Run(outcome, TestTimeout))>>]

\* run_tests when no executable is found
RunTestsNotFound ==
    /\ tests_pc = "call"
    /\ None \in FindTestExecutable(build_fs)
    /\ tests_result' = ExecutableNotFound
    /\ tests_pc' = "done"
    /\ UNCHANGED <<build_fs, exec_calls>>
    /\ UNCHANGED not_tests

\* run_tests when an executable is found: it is started once
RunTestsExecute(exe, outcome) ==
    /\ tests_pc = "call"
    /\ exe \in FindTestExecutable(build_fs)
    /\ exe # None
    /\ exec_calls' = Append(exec_calls, [exe |-> exe.path, outcome |-> outcome])
    /\ tests_result' = RunTestProcess(outcome)
    /\ tests_pc' = "done"
    /\ UNCHANGED build_fs
    /\ UNCHANGED not_tests

TestsStart ==
    /\ build_fs \in [TestPaths -> EntryKinds]
    /\ tests_pc = "call"
    /\ tests_result = NoResult
    /\ exec_calls = <<>>

TestsIdle ==
    /\ build_fs = [p \in TestPaths |-> "absent"]
    /\ tests_pc = "done"
    /\ tests_result = NoResult
    /\ exec_calls = <<>>

TestsNext ==
    \/ RunTestsNotFound
    \/ \E p \in TestPaths, outcome \in ProcOutcomes :
           RunTestsExecute([kind |-> "path", path |-> p], outcome)

-----------------------------------------------------------------------------
(* Binary floating point (IEEE 754 double), as far as the coverage          *)
(* arithmetic needs it.  A mantissa is a sequence of bits, most significant *)
(* first, without leading zeros; a nonzero double is [m, e] with a 53 bit   *)
(* mantissa and the value m * 2^e; zero has the empty mantissa.             *)

MantissaBits == 53

\* Long numbers are cut into limbs of LimbBits bits for multiplication and
\* division, so that every intermediate value stays a machine integer.
LimbBits == 15
LimbBase == 2 ^ LimbBits

Zeros(k) == [i \in 1..k |-> 0]

BitLength(n) == CHOOSE k \in 0..31 : (k = 0 \/ 2 ^ (k - 1) <= n) /\ (k = 31 \/ n < 2 ^ k)

NatToBits(n) == [i \in 1..BitLength(n) |-> (n \div 2 ^ (BitLength(n) - i)) % 2]

RECURSIVE BitsToNat(_)
BitsToNat(b) ==
    IF b = <<>> THEN 0 ELSE 2 * BitsToNat(SubSeq(b, 1, Len(b) - 1)) + b[Len(b)]

StripZeros(b) ==
    LET ones == {i \in 1..Len(b) : b[i] = 1}
    IN  IF ones = {} THEN <<>> ELSE SubSeq(b, Min(ones), Len(b))

\* the limbs of b, most significant first
ToLimbs(b) ==
    LET n == (Len(b) + LimbBits - 1) \div LimbBits
        padded == Zeros(n * LimbBits - Len(b)) \o b
    IN  [k \in 1..n |-> BitsToNat(SubSeq(padded, (k - 1) * LimbBits + 1, k * LimbBits))]

FromLimbs(limbs) ==
    StripZeros([i \in 1..(LimbBits * Len(limbs)) |->
        (limbs[(i - 1) \div LimbBits + 1] \div 2 ^ (LimbBits - 1 - ((i - 1) % LimbBits))) % 2])

\* limbs * c for a small c, from the least significant limb up
RECURSIVE MulAcc(_, _, _, _)
MulAcc(limbs, c, i, carry) ==
    IF i = 0 THEN <<carry>>
    ELSE LET t == limbs[i] * c + carry
         IN  Append(MulAcc(limbs, c, i - 1, t \div LimbBase), t % LimbBase)

MulBits(b, c) == FromLimbs(MulAcc(ToLimbs(b), c, Len(ToLimbs(b)), 0))

\* limbs divided by a small d, from the most significant limb down
RECURSIVE DivAcc(_, _, _, _, _)
DivAcc(limbs, d, i, rem, q) ==
    IF i > Len(limbs) THEN [q |-> FromLimbs(q), r |-> rem]
    ELSE LET t == rem * LimbBase + limbs[i]
         IN  DivAcc(limbs, d, i + 1, t % d, Append(q, t \div d))

DivBits(b, d) == DivAcc(ToLimbs(b), d, 1, 0, <<>>)

\* b + 1; all ones carries into one more bit
IncBits(b) ==
    LET zeros == {i \in 1..Len(b) : b[i] = 0}
    IN  IF zeros = {} THEN <<1>> \o Zeros(Len(b))
        ELSE LET p == CHOOSE i \in zeros : \A j \in zeros : j <= i
             IN  [i \in 1..Len(b) |-> IF i < p THEN b[i] ELSE IF i = p THEN 1 ELSE 0]

\* Round the exact value (b + a fraction that is nonzero iff sticky) * 2^e to
\* a double: round to nearest, ties to even.
RoundToDouble(b, sticky, e) ==
    IF Len(b) <= MantissaBits THEN [m |-> b, e |-> e]
    ELSE LET top == SubSeq(b, 1, MantissaBits)
             guard == b[MantissaBits + 1]
             rest == sticky \/ \E i \in (MantissaBits + 2)..Len(b) : b[i] = 1
             dropped == Len(b) - MantissaBits
             up == guard = 1 /\ (rest \/ top[MantissaBits] = 1)
             inc == IncBits(top)
         IN  IF ~up THEN [m |-> top, e |-> e + dropped]
             ELSE IF Len(inc) > MantissaBits
                 THEN [m |-> SubSeq(inc, 1, MantissaBits), e |-> e + dropped + 1]
                 ELSE [m |-> inc, e |-> e + dropped]

RECURSIVE Pow10(_)
Pow10(d) == IF d = 0 THEN 1 ELSE 10 * Pow10(d - 1)

GuardBits == 70

\* float("<digits>.<digits>"): the double nearest to n / 10^d
FloatOfDecimal(n, d) ==
    IF n = 0 THEN [m |-> <<>>, e |-> 0]
    ELSE LET qr == DivBits(NatToBits(n) \o Zeros(GuardBits), Pow10(d))
         IN  RoundToDouble(qr.q, qr.r # 0, -GuardBits)

\* c * x for an int c and a double x
FloatMulInt(c, x) ==
    IF c = 0 \/ x.m = <<>> THEN [m |-> <<>>, e |-> 0]
    ELSE RoundToDouble(MulBits(x.m, c), FALSE, x.e)

\* x / c for a double x and a small int c
FloatDivInt(x, c) ==
    IF x.m = <<>> THEN x
    ELSE LET qr == DivBits(x.m \o Zeros(GuardBits), c)
         IN  RoundToDouble(qr.q, qr.r # 0, x.e - GuardBits)

\* int(x): truncation toward zero, for values below 2^31
IntOfFloat(x) ==
    IF x.m = <<>> \/ -x.e >= Len(x.m) THEN 0
    ELSE BitsToNat(SubSeq(x.m, 1, Len(x.m) + x.e))

-----------------------------------------------------------------------------
(* CoverageAnalyzer                                                         *)

GcovTimeout == 60

gcov_data_extensions == {".gcda", ".gcno"}

\* Files that may be under the build directory.
CovFiles ==
    { [dir |-> <<>>, stem |-> "a", suffix |-> ".gcda"],
      [dir |-> <<>>, stem |-> "a", suffix |-> ".gcno"],
      [dir |-> <<"CMakeFiles">>, stem |-> "b", suffix |-> ".gcda"],
      [dir |-> <<>>, stem |-> "Makefile", suffix |-> ""] }

\* A line of gcov output: a line summary "Lines executed:<n/10^d>% of
\* <count>" with the percentage written with d decimals, a line that has
\* the prefix but not the shape the pattern wants, or any other line.
Summary(n, d, count) == [kind |-> "summary", n |-> n, d |-> d, count |-> count]
Unparsable == [kind |-> "unparsable"]
Other == [kind |-> "other"]
\* a line the pattern matches with a count too large for `count * percent`
\* (OverflowError: int too large to convert to float)
Overflowing == [kind |-> "overflowing"]

GcovTexts ==
    { <<Other, Summary(500, 1, 10), Other>>,
      <<Other, Summary(1000, 1, 4)>>,
      <<Summary(1840, 2, 375)>>,
      <<Summary(15000, 2, 10)>>,
      <<Summary(0, 2, 0), Unparsable>>,
      <<Summary(500, 1, 10), Overflowing>>,
      <<>> }

GcovOutcomes ==
    [kind : {"FileNotFoundError"}]
        \cup [kind : {"ran"}, duration : {1, 100}, returncode : {0, 1},
              stdout : GcovTexts]

\* _has_coverage_data
HasCoverageData(fs) == \E f \in fs : f.suffix \in gcov_data_extensions

\* faulty variant: gcov is run for the notes files as well
GcdaAndGcnoFiles(fs) == {f \in fs : f.suffix \in gcov_data_extensions}

\* the .gcda files _generate_coverage_report collects
GcdaFiles(fs) == {f \in fs : f.suffix = ".gcda"}

\* int(count * percent / 100) with percent = float(match.group(1))
CoveredLines(line) ==
    IntOfFloat(FloatDivInt(FloatMulInt(line.count, FloatOfDecimal(line.n, line.d)), 100))

\* `total_lines += count` over the lines the pattern matches
RECURSIVE TotalLines(_)
TotalLines(lines) ==
    IF lines = <<>> THEN 0
    ELSE (IF Head(lines).kind = "summary" THEN Head(lines).count ELSE 0)
            + TotalLines(Tail(lines))

\* `covered_lines += int(count * percent / 100)` over the same lines
RECURSIVE CoveredTotal(_)
CoveredTotal(lines) ==
    IF lines = <<>> THEN 0
    ELSE (IF Head(lines).kind = "summary" THEN CoveredLines(Head(lines)) ELSE 0)
            + CoveredTotal(Tail(lines))

\* A percentage is kept as the exact ratio num / den; the float division and
\* multiplication that produce it are monotone and exact at 0 and at 100.
Zero == [num |-> 0, den |-> 1]

ZeroReport ==
    [line_coverage |-> Zero, branch_coverage |-> Zero, function_coverage |-> Zero,
     files |-> <<>>]

NoDataReport ==
    [error |-> "No coverage data found",
     line_coverage |-> Zero, branch_coverage |-> Zero, function_coverage |-> Zero,
     files |-> <<>>]

\* `if total_lines > 0: result['line_coverage'] = (covered_lines / total_lines) * 100`
LineCoverage(covered_lines, total_lines) ==
    IF total_lines > 0
        THEN [num |-> covered_lines * 100, den |-> total_lines]
        ELSE Zero

\* _parse_coverage_data: the loop over the lines and the final division
\* are inside one try block, so an exception raised at any line leaves the
\* report as it was initialised.
ParseCoverageData(output) ==
    IF output = <<>> THEN ZeroReport
    ELSE IF \E i \in 1..Len(output) : output[i] = Overflowing THEN ZeroReport
    ELSE [ZeroReport EXCEPT !.line_coverage =
            LineCoverage(CoveredTotal(output), TotalLines(output))]

\* analyze up to the gcov loop: the gate, and the list of .gcda files
CovCheck ==
    /\ cov_pc = "call"
    /\ IF ~HasCoverageData(cov_fs)
          THEN /\ cov_report' = NoDataReport
               /\ cov_pc' = "done"
               /\ UNCHANGED gcda_todo
          ELSE IF GcdaFiles(cov_fs) = {}
          THEN /\ cov_report' = ParseCoverageData(<<>>)
               /\ cov_pc' = "done"
               /\ UNCHANGED gcda_todo
          ELSE /\ gcda_todo' = GcdaFiles(cov_fs)
               /\ cov_pc' = "gcov"
               /\ UNCHANGED cov_report
    /\ UNCHANGED <<cov_fs, coverage_output, gcov_calls>>
    /\ UNCHANGED not_cov

\* One iteration of the gcov loop, in the directory of the file; after the
\* last file the output is parsed and the report returned.
CovGcov(file, outcome) ==
    /\ cov_pc = "gcov"
    /\ file \in gcda_todo
    /\ gcov_calls' = Append(gcov_calls, [file |-> file, cwd |-> file.dir, outcome |-> outcome])
    /\ coverage_output' =
          IF Run(outcome, GcovTimeout) = "completed" /\ outcome.returncode = 0
              THEN coverage_output \o outcome.stdout \o <<Other>>
              ELSE coverage_output
    /\ gcda_todo' = gcda_todo \ {file}
    /\ IF gcda_todo' = {}
          THEN /\ cov_report' = ParseCoverageData(coverage_output')
               /\ cov_pc' = "done"
          ELSE UNCHANGED <<cov_report, cov_pc>>
    /\ UNCHANGED cov_fs
    /\ UNCHANGED not_cov

CovStart ==
    /\ cov_fs \in SUBSET CovFiles
    /\ cov_pc = "call"
    /\ gcda_todo = {}
    /\ coverage_output = <<>>
    /\ gcov_calls = <<>>
    /\ cov_report = NoResult

CovIdle ==
    /\ cov_fs = {}
    /\ cov_pc = "done"
    /\ gcda_todo = {}
    /\ coverage_output = <<>>
    /\ gcov_calls = <<>>
    /\ cov_report = NoResult

CovNext ==
    \/ CovCheck
    \/ \E file \in CovFiles, outcome \in GcovOutcomes : CovGcov(file, outcome)

-----------------------------------------------------------------------------
(* CppAnalyzer.analyze_file                                                 *)
(* A source text is a sequence of lines; a line is told by the pattern that *)
(* matches it: a signature `T name(...) {` (function_pattern, which also    *)
(* matches `if (...) {`), `class Name {`, `#include <target>`,              *)
(* `namespace name {`, or none of them (a closing brace).                  *)

MaxLines == 3

SourceLines ==
    { [kind |-> "signature", name |-> "add"],
      [kind |-> "signature", name |-> "if"],
      [kind |-> "class", name |-> "Foo"],
      [kind |-> "include", name |-> "vector"],
      [kind |-> "namespace", name |-> "ns"],
      [kind |-> "other", name |-> ""] }

SourceTexts == UNION {[1..k -> SourceLines] : k \in 0..MaxLines}

\* faulty variant: a failed open yields a unit without the error marker
AnalyzeFileUnmarked(opened, content) ==
    [file_path |-> "f", functions |-> <<>>, classes |-> <<>>,
     includes |-> {}, namespaces |-> {}]

\* analyze_file.  functions and classes are listed in source order with
\* their 1-based line; includes and namespaces go through list(set(...)),
\* whose order is arbitrary, and are kept as sets.
AnalyzeFile(opened, content) ==
    LET Matches(kinds, skipped) ==
            {i \in 1..Len(content) :
                content[i].kind \in kinds /\ content[i].name \notin skipped}
        Listed(idx) ==
            [k \in 1..Cardinality(idx) |->
                LET i == CHOOSE x \in idx : Cardinality({y \in idx : y <= x}) = k
                IN  [name |-> content[i].name, line |-> i]]
        Names(kind) == {content[i].name : i \in Matches({kind}, {})}
    IN  IF opened = "ok"
            THEN [file_path |-> "f",
                  functions |-> Listed(Matches({"signature"},
                                    {"if", "for", "while", "switch", "catch",
                                     "class", "struct", "enum"})),
                  classes |-> Listed(Matches({"class"}, {})),
                  includes |-> Names("include"),
                  namespaces |-> Names("namespace")]
            ELSE [file_path |-> "f",
                  error |-> StrOf(opened),
                  functions |-> <<>>,
                  classes |-> <<>>,
                  includes |-> {},
                  namespaces |-> {}]

AnalyzeCall ==
    /\ an_pc = "call"
    /\ an_unit' = AnalyzeFile(an_opened, an_content)
    /\ an_pc' = "done"
    /\ UNCHANGED <<an_opened, an_content>>
    /\ UNCHANGED not_an

\* A file that cannot be opened has no content to read.
AnalyzeStart ==
    /\ an_opened \in {"ok", "FileNotFoundError", "PermissionError"}
    /\ an_content \in SourceTexts
    /\ an_opened # "ok" => an_content = <<>>
    /\ an_pc = "call"
    /\ an_unit = NoResult

AnalyzeIdle ==
    /\ an_opened = "ok"
    /\ an_content = <<>>
    /\ an_pc = "done"
    /\ an_unit = NoResult

-----------------------------------------------------------------------------
LLMInit == LLMStart /\ GenIdle /\ BuildIdle /\ TestsIdle /\ CovIdle /\ ExtractIdle /\ FindIdle /\ AnalyzeIdle
GenInit == LLMIdle /\ GenStart /\ BuildIdle /\ TestsIdle /\ CovIdle /\ ExtractIdle /\ FindIdle /\ AnalyzeIdle
BuildInit == LLMIdle /\ GenIdle /\ BuildStart /\ TestsIdle /\ CovIdle /\ ExtractIdle /\ FindIdle /\ AnalyzeIdle
TestsInit == LLMIdle /\ GenIdle /\ BuildIdle /\ TestsStart /\ CovIdle /\ ExtractIdle /\ FindIdle /\ AnalyzeIdle

CovInit == LLMIdle /\ GenIdle /\ BuildIdle /\ TestsIdle /\ CovStart /\ ExtractIdle /\ FindIdle /\ AnalyzeIdle

ExtractInit == LLMIdle /\ GenIdle /\ BuildIdle /\ TestsIdle /\ CovIdle /\ ExtractStart /\ FindIdle /\ AnalyzeIdle
FindInit == LLMIdle /\ GenIdle /\ BuildIdle /\ TestsIdle /\ CovIdle /\ ExtractIdle /\ FindStart /\ AnalyzeIdle
AnalyzeInit == LLMIdle /\ GenIdle /\ BuildIdle /\ TestsIdle /\ CovIdle /\ ExtractIdle /\ FindIdle /\ AnalyzeStart

SpecLLM == LLMInit /\ [][LLMNext]_vars
SpecGen == GenInit /\ [][GenNext]_vars
SpecBuild == BuildInit /\ [][BuildNext]_vars
SpecTests == TestsInit /\ [][TestsNext]_vars
SpecCov == CovInit /\ [][CovNext]_vars
SpecExtract == ExtractInit /\ [][ExtractNext]_vars
SpecFind == FindInit /\ [][FindNext]_vars
SpecAnalyze == AnalyzeInit /\ [][AnalyzeCall]_vars
\* one call of build, or one call of run_tests
SpecBuildAndRun == (BuildInit \/ TestsInit) /\ [][BuildNext \/ TestsNext]_vars

Init == LLMInit \/ GenInit \/ BuildInit \/ TestsInit \/ CovInit \/ ExtractInit
            \/ FindInit \/ AnalyzeInit
Next == LLMNext \/ GenNext \/ BuildNext \/ TestsNext \/ CovNext \/ ExtractNext
            \/ FindNext \/ AnalyzeCall
Spec == Init /\ [][Next]_vars

-----------------------------------------------------------------------------
(* C1: when every backend attempt fails, generate returns None (it does not *)
(* raise) and the number of backend calls equals max_retries, for every     *)
(* configured maximum including 0 and 1.                                    *)
AllFailed == \A i \in 1..Len(calls) : calls[i] = "failed"

C1_ExhaustedReturnsNone ==
    (llm_pc # "loop" /\ provider \in Supported /\ AllFailed)
        => /\ llm_pc = "returned"
           /\ llm_result = None
           /\ Len(calls) = max_retries

C1_Witness ==
    /\ llm_pc = "returned"
    /\ provider \in Supported
    /\ AllFailed
    /\ max_retries = 2
    /\ Len(calls) = 2

(* C7: an unsupported provider tag is a fatal configuration error: no       *)
(* repeated attempts, no retry delays, and not the ordinary "no result"     *)
(* return value.                                                            *)
C7_UnsupportedIsFatal ==
    provider \notin Supported
        => /\ attempt <= 1
           /\ delays = <<>>
           /\ ~(llm_pc = "returned" /\ llm_result = None /\ max_retries > 0)

(* C2: a source file whose generation yields no result is skipped and every *)
(* later source file is still processed; the run returns failure if and     *)
(* only if zero tests were generated over the whole batch.                  *)
SeqToSet(s) == {s[i] : i \in 1..Len(s)}

C2_SkipAndContinue ==
    /\ gen_pc = "done" /\ cpp_files # <<>> => attempted = cpp_files
    /\ \A n \in DOMAIN generated_tests :
          generated_tests[n].source_file \in SeqToSet(produced)
    /\ gen_pc = "done" => (gen_result = "False" <=> produced = <<>>)
    /\ gen_pc = "done" => gen_result \in {"True", "False"}

C2_Witness ==
    /\ gen_pc = "done"
    /\ gen_result = "True"
    /\ Len(attempted) = 3
    /\ Len(produced) = 1
    /\ produced[1] = attempted[2]

-----------------------------------------------------------------------------
(* Claims about BuildManager                                                *)

\* the process ran to its end within the budget and exited with this code
Exited(outcome, budget) == outcome.kind = "ran" /\ outcome.duration <= budget
TimedOut(outcome, budget) == outcome.kind = "ran" /\ outcome.duration > budget

ExitedZero(steps, budget) ==
    /\ Len(steps) = 1
    /\ Exited(steps[1], budget)
    /\ steps[1].returncode = 0

HasError(r) == "error" \in DOMAIN r
HasReturncode(r) == "returncode" \in DOMAIN r

\* the result of the compile step, once it has run
CompileResult == build_result

(* C4: whenever the build tool executable is absent, the failed result      *)
(* carries the missing-tool classification, which differs from the          *)
(* classification of every configure failure, compile failure and timeout,  *)
(* in the configure step and in the compile step alike.                     *)
C4_MissingToolClassified ==
    /\ \A i \in 1..Len(configure_calls) :
          /\ configure_calls[i].kind = "FileNotFoundError"
                => /\ ~cmake_result.success
                   /\ HasError(cmake_result) /\ cmake_result.error = MissingToolError
          /\ configure_calls[i].kind # "FileNotFoundError"
                => ~(HasError(cmake_result) /\ cmake_result.error = MissingToolError)
    /\ \A i \in 1..Len(compile_calls) :
          /\ compile_calls[i].kind = "FileNotFoundError"
                => /\ ~CompileResult.success
                   /\ HasError(CompileResult) /\ CompileResult.error = MissingToolError
          /\ compile_calls[i].kind # "FileNotFoundError"
                => ~(HasError(CompileResult) /\ CompileResult.error = MissingToolError)

(* C5: a timeout of the configure step and a timeout of the compile step    *)
(* each yield a failed result with a Timeout classification that no         *)
(* configure failure or compile failure (process exited nonzero) carries;   *)
(* each step has its own budget, the configure step the shorter one.        *)
C5_TimeoutsClassified ==
    /\ ConfigureTimeout < BuildTimeout
    /\ \A i \in 1..Len(configure_calls) :
          LET o == configure_calls[i] IN
          /\ TimedOut(o, 120)
                => /\ ~cmake_result.success
                   /\ HasError(cmake_result)
                   /\ cmake_result.error = "CMake configuration timeout"
                   /\ ~HasReturncode(cmake_result)
          /\ Exited(o, 120) /\ o.returncode # 0
                => /\ ~cmake_result.success
                   /\ ~HasError(cmake_result)
                   /\ cmake_result.returncode = o.returncode
          /\ ~TimedOut(o, 120)
                => ~(HasError(cmake_result)
                        /\ cmake_result.error \in {"CMake configuration timeout", "Build timeout"})
    /\ \A i \in 1..Len(compile_calls) :
          LET o == compile_calls[i] IN
          /\ TimedOut(o, 300)
                => /\ ~CompileResult.success
                   /\ HasError(CompileResult)
                   /\ CompileResult.error = "Build timeout"
                   /\ ~HasReturncode(CompileResult)
          /\ Exited(o, 300) /\ o.returncode # 0
                => /\ ~CompileResult.success
                   /\ ~HasError(CompileResult)
                   /\ CompileResult.returncode = o.returncode
          /\ ~TimedOut(o, 300)
                => ~(HasError(CompileResult)
                        /\ CompileResult.error \in {"CMake configuration timeout", "Build timeout"})

\* the compile step timed out after a configure step that succeeded
C5_Witness ==
    /\ build_pc = "Failed"
    /\ ExitedZero(configure_calls, 120)
    /\ Len(compile_calls) = 1
    /\ TimedOut(compile_calls[1], 300)
    /\ build_result.error = "Build timeout"

(* C6: the compile step is invoked only after the configure step returned   *)
(* success; when configure fails for any reason build returns the configure *)
(* step's failed result and the compile step is never invoked; the attempt  *)
(* ends Succeeded if and only if both steps exited with code 0.             *)
C6_CompileOnlyAfterConfigure ==
    /\ Len(configure_calls) <= 1 /\ Len(compile_calls) <= 1
    /\ compile_calls # <<>>
          => /\ ExitedZero(configure_calls, 120)
             /\ cmake_result.success
    /\ (configure_calls # <<>> /\ ~ExitedZero(configure_calls, 120))
          => /\ build_pc = "Failed"
             /\ build_result = cmake_result
             /\ ~build_result.success
             /\ compile_calls = <<>>
    /\ build_pc = "Succeeded"
          <=> (ExitedZero(configure_calls, 120) /\ ExitedZero(compile_calls, 300))
    /\ build_pc \in {"Succeeded", "Failed"}
          => (build_result.success <=> build_pc = "Succeeded")

C6_Witness ==
    /\ build_pc = "Failed"
    /\ configure_calls # <<>>
    /\ TimedOut(configure_calls[1], 120)
    /\ build_result = cmake_result
    /\ compile_calls = <<>>

(* C8: run_tests reports an undiscoverable test executable as a failure     *)
(* distinct from a nonzero exit code: nothing is executed and the result    *)
(* carries the "executable not found" classification and no exit code,      *)
(* whereas a test process that ran and exited nonzero yields a failed       *)
(* result with that exit code and the captured output streams.              *)
ConventionalExecutables(fs) ==
    {p \in DOMAIN fs :
        /\ fs[p] = "file_x"
        /\ p.name \in {"run_tests", "run_tests.exe", "tests", "tests.exe"}}

C8_NotFoundIsNotExitCode ==
    tests_pc = "done" =>
        /\ ConventionalExecutables(build_fs) = {} => exec_calls = <<>>
        /\ exec_calls = <<>>
              => /\ ~tests_result.success
                 /\ HasError(tests_result)
                 /\ tests_result.error = "Test executable not found"
                 /\ ~HasReturncode(tests_result)
        /\ \A i \in 1..Len(exec_calls) :
              LET o == exec_calls[i].outcome IN
              /\ ~(HasError(tests_result)
                      /\ tests_result.error = "Test executable not found")
              /\ Exited(o, 60) /\ o.returncode # 0
                    => /\ ~tests_result.success
                       /\ ~HasError(tests_result)
                       /\ tests_result.returncode = o.returncode
                       /\ tests_result.stdout = o.stdout
                       /\ tests_result.stderr = o.stderr

C8_Witness ==
    /\ tests_pc = "done"
    /\ exec_calls = <<>>
    /\ \E p \in DOMAIN build_fs : build_fs[p] = "file" /\ p.dir = <<>>
    /\ tests_result.error = "Test executable not found"

-----------------------------------------------------------------------------
(* Claims about CoverageAnalyzer                                            *)

IsZeroed(r) ==
    /\ r.line_coverage.num = 0
    /\ r.branch_coverage.num = 0
    /\ r.function_coverage.num = 0

(* C3: analyze returns the zeroed report with the "no data" marker whenever *)
(* no instrumentation data file (the .gcda file an executed binary emits)   *)
(* exists under the build directory; a zeroed report without the marker is  *)
(* returned only when the coverage tool was run on at least one data file.  *)
C3_NoDataIsMarked ==
    cov_pc = "done" =>
        /\ (\A f \in cov_fs : f.suffix # ".gcda")
              => /\ IsZeroed(cov_report)
                 /\ HasError(cov_report)
                 /\ cov_report.error = "No coverage data found"
        /\ (IsZeroed(cov_report) /\ ~HasError(cov_report))
              => \E i \in 1..Len(gcov_calls) : gcov_calls[i].outcome.kind = "ran"

(* C9: the aggregate line coverage equals                                   *)
(* 100 * (sum of floor(count_i * percent_i / 100)) / (sum of count_i) over  *)
(* the reported units, and 0.0 when the sum of counts is 0.                 *)
ExactCoveredLines(line) == (line.count * line.n) \div (100 * Pow10(line.d))

RECURSIVE ExactCoveredTotal(_)
ExactCoveredTotal(lines) ==
    IF lines = <<>> THEN 0
    ELSE (IF Head(lines).kind = "summary" THEN ExactCoveredLines(Head(lines)) ELSE 0)
            + ExactCoveredTotal(Tail(lines))

RECURSIVE CountTotal(_)
CountTotal(lines) ==
    IF lines = <<>> THEN 0
    ELSE (IF Head(lines).kind = "summary" THEN Head(lines).count ELSE 0)
            + CountTotal(Tail(lines))

C9_AggregateIsFloorRatio ==
    (cov_pc = "done" /\ ~HasError(cov_report)) =>
        IF CountTotal(coverage_output) = 0
            THEN cov_report.line_coverage.num = 0
            ELSE cov_report.line_coverage.num * CountTotal(coverage_output)
                    = 100 * ExactCoveredTotal(coverage_output)
                        * cov_report.line_coverage.den

(* C10: every report analyze returns has line, branch and function coverage *)
(* within [0,100], whatever coverage tool output it parsed.                 *)
InRange(q) == 0 <= q.num /\ q.num <= 100 * q.den

C10_PercentagesInRange ==
    cov_pc = "done" =>
        /\ InRange(cov_report.line_coverage)
        /\ InRange(cov_report.branch_coverage)
        /\ InRange(cov_report.function_coverage)

-----------------------------------------------------------------------------
(* Claims about the top-level command                                       *)

(* C11: the top-level command exits with code 0 if and only if at least one *)
(* test was generated, and with code 1 otherwise: input directory missing,  *)
(* no source files found, or every file's generation yielded no result.     *)
C11_ExitCodeIffGenerated ==
    gen_pc = "exited" =>
        /\ exit_code \in {"0", "1"}
        /\ exit_code = "0" <=> produced # <<>>
        /\ ~input_is_dir => exit_code = "1" /\ attempted = <<>>
        /\ cpp_files = <<>> => exit_code = "1"
        /\ (attempted # <<>> /\ produced = <<>>) => exit_code = "1"

C11_Witness ==
    /\ gen_pc = "exited"
    /\ exit_code = "0"
    /\ Len(produced) >= 1
    /\ Len(produced) < Len(attempted)

(* C12: after a successful run into an initially empty output directory the *)
(* directory holds, for every source file whose generation produced code,   *)
(* a test file test_<stem>.cpp, plus exactly one build descriptor           *)
(* CMakeLists.txt and nothing else; with one source file that is exactly    *)
(* one test file and one descriptor, and the run reports success.           *)
TestFilesOf(dir) == DOMAIN dir.files \ {CMakeName}

C12_ArtifactsOfSuccessfulRun ==
    [][(gen_pc = "loop" /\ gen_result' = "True" /\ out_dir.files = EmptyDict) =>
          /\ out_dir'.exists
          /\ CMakeName \in DOMAIN out_dir'.files
          /\ out_dir'.files[CMakeName] = CMakeContent
          /\ TestFilesOf(out_dir') = {TestFilename(f) : f \in SeqToSet(produced)}
          /\ \A f \in SeqToSet(produced) : out_dir'.files[TestFilename(f)] # <<>>
          /\ Len(cpp_files) = 1 =>
                 /\ TestFilesOf(out_dir') = {TestFilename(cpp_files[1])}
                 /\ Cardinality(DOMAIN out_dir'.files) = 2]_vars

C12_Witness ==
    /\ gen_result = "True"
    /\ Len(cpp_files) = 1
    /\ DOMAIN out_dir.files = {TestFilename(cpp_files[1]), CMakeName}
    /\ cpp_files[1].stem = "a"

(* C13: a run sequences generation, artifact writing, build, test execution *)
(* and coverage measurement, and its pass/fail decision depends on the      *)
(* configured coverage thresholds: a run is reported as success only after  *)
(* the build was attempted, the tests were executed and a coverage report   *)
(* was obtained and found to meet the thresholds.                           *)
C13_SuccessAfterBuildTestCoverage ==
    gen_result = "True" =>
        /\ configure_calls # <<>>
        /\ build_result # NoResult
        /\ tests_result # NoResult
        /\ cov_report # NoResult

(* C14: for a response containing a fenced code block, _extract_cpp_code    *)
(* returns exactly the trimmed contents of the first block, with no fence   *)
(* marker and no language tag in it; for a response without a complete      *)
(* fenced block it returns the full response trimmed of leading and         *)
(* trailing whitespace.                                                     *)
LanguageTags == {TAG, LANG}

\* what stands between the first two fence markers, without the language
\* tag that follows the opening marker
FirstBlockContents(response) ==
    LET i == Min(FencePositions(response))
        j == Min(FencePositions(response) \ {i})
        k == IF i + 1 < j /\ response[i + 1] \in LanguageTags THEN i + 2 ELSE i + 1
    IN  SubSeq(response, k, j - 1)

C14_ExtractsTrimmedBlock ==
    ext_pc = "done" =>
        IF Cardinality(FencePositions(ext_response)) >= 2
            THEN ext_code = Strip(FirstBlockContents(ext_response))
            ELSE ext_code = Strip(ext_response)

(* C16: _find_test_executable returns a top-level file of the build         *)
(* directory whenever one with a conventional name (run_tests,              *)
(* run_tests.exe, tests, tests.exe, tried in that order) is an executable   *)
(* regular file; only otherwise the first executable file with a            *)
(* conventional name that the recursive walk meets; and none exactly when   *)
(* no executable file with a conventional name exists anywhere under the    *)
(* build directory.  run_tests starts what _find_test_executable returned.  *)
NameRank(name) == CHOOSE i \in 1..4 : <<"run_tests", "run_tests.exe", "tests", "tests.exe">>[i] = name

TopLevelConventional(fs) == {p \in ConventionalExecutables(fs) : p.dir = <<>>}

C16_TopLevelThenWalk ==
    tests_pc = "done" =>
        /\ exec_calls = <<>> <=> ConventionalExecutables(build_fs) = {}
        /\ Len(exec_calls) <= 1
        /\ \A i \in 1..Len(exec_calls) :
              LET exe == exec_calls[i].exe
                  top == TopLevelConventional(build_fs)
              IN  /\ exe \in ConventionalExecutables(build_fs)
                  /\ top # {} =>
                        /\ exe \in top
                        /\ \A p \in top : NameRank(exe.name) <= NameRank(p.name)
                  /\ top = {} =>
                        \A q \in ConventionalExecutables(build_fs) :
                            ~IsStrictPrefix(q.dir, exe.dir)

C16_Witness ==
    /\ tests_pc = "done"
    /\ build_fs[[dir |-> <<>>, name |-> "run_tests"]] = "dir"
    /\ build_fs[[dir |-> <<>>, name |-> "tests.exe"]] = "file"
    /\ build_fs[[dir |-> <<"Debug">>, name |-> "run_tests.exe"]] = "file_x"
    /\ build_fs[[dir |-> <<"Debug", "bin">>, name |-> "tests"]] = "file_x"
    /\ exec_calls # <<>>
    /\ exec_calls[1].exe = [dir |-> <<"Debug">>, name |-> "run_tests.exe"]

(* C18: in generate a delay of exactly retry_delay happens between every two *)
(* consecutive attempts and at no other time: the same delay for every gap, *)
(* none before the first attempt and none after the last one, so a call     *)
(* that made k attempts performed exactly k-1 delays.                       *)
\* the iterations of the retry loop a finished call went through
AttemptsMade == IF llm_result # None THEN attempt + 1 ELSE attempt

C18_DelayBetweenAttemptsOnly ==
    /\ \A i \in 1..Len(delays) :
          /\ delays[i].seconds = retry_delay
          /\ delays[i].after = i - 1
          /\ delays[i].after + 1 < max_retries
    /\ llm_pc = "loop" => Len(delays) <= attempt
    /\ provider \in Supported => Len(delays) <= Len(calls)
    /\ llm_pc = "returned" =>
          /\ provider \in Supported => AttemptsMade = Len(calls)
          /\ AttemptsMade >= 1 => Len(delays) = AttemptsMade - 1
          /\ AttemptsMade = 0 => delays = <<>>

C18_Witness ==
    /\ llm_pc = "returned"
    /\ provider \in Supported
    /\ Len(calls) = 3
    /\ calls[3] = "ok"
    /\ Len(delays) = 2
    /\ retry_delay = 2

-----------------------------------------------------------------------------
(* Claims about the results of build, run_tests and analyze together        *)

\* a result that reports a failure
IsFailure(r) ==
    \/ "success" \in DOMAIN r /\ ~r.success
    \/ "error" \in DOMAIN r

(* C17: build, run_tests and analyze never raise to the caller; every       *)
(* failed result they return is a structured result carrying a success flag *)
(* set to false, an error classification and log text, for each failure     *)
(* kind: tool missing, timeout, configure failure, compile failure, nonzero *)
(* test exit.                                                               *)
C17_FailuresAreStructured ==
    \A r \in {build_result, tests_result, cov_report} :
        IsFailure(r) =>
            /\ "success" \in DOMAIN r /\ ~r.success
            /\ "error" \in DOMAIN r
            /\ "log" \in DOMAIN r

-----------------------------------------------------------------------------
(* Claims about CppAnalyzer                                                 *)

\* name ends with suffix, after a stem of at least one character
CarriesSuffix(name, suffix) ==
    /\ Len(name) > Len(suffix)
    /\ SubSeq(name, Len(name) - Len(suffix) + 1, Len(name)) = suffix

\* the files of the tree with a recognized suffix and no skipped directory
\* name anywhere on their path
SourcesOutsideSkipped(tree) ==
    {f \in tree : /\ \E suffix \in cpp_extensions : CarriesSuffix(f.name, suffix)
                  /\ \A i \in 1..Len(f.dir) : f.dir[i] \notin SkippedDirs}

(* C15: for every directory tree with N files carrying a recognized source  *)
(* suffix outside the skipped subdirectories, find_cpp_files returns        *)
(* exactly those N paths, each once, in lexicographically sorted order: no  *)
(* file with an unrelated suffix and no file under a subdirectory named     *)
(* build, cmake-build-debug, cmake-build-release or .git at any depth.      *)
C15_FindsExactlySortedSources ==
    find_pc = "done" =>
        /\ SeqToSet(find_result) = {PathString(f) : f \in SourcesOutsideSkipped(find_tree)}
        /\ Len(find_result) = Cardinality(SourcesOutsideSkipped(find_tree))
        /\ \A i, j \in 1..Len(find_result) :
               i < j => StrLess(find_result[i], find_result[j])

C15_Witness ==
    /\ find_pc = "done"
    /\ Len(find_result) >= 3
    /\ find_walk # find_result
    /\ \E f \in find_tree : Len(f.dir) = 2 /\ f.dir[2] \in SkippedDirs
    /\ \E f \in find_tree : Suffix(f.name) \notin cpp_extensions

(* C19: analyze_file never raises to the caller: for a file that cannot be  *)
(* read it returns a unit with an error marker and empty function, class,   *)
(* include and namespace lists, and for a readable file it returns a unit   *)
(* without the error marker.                                                *)
C19_AnalyzeFileNeverRaises ==
    /\ an_pc \in {"call", "done"}
    /\ an_pc = "done" =>
          /\ an_unit # NoResult
          /\ an_opened # "ok" =>
                /\ "error" \in DOMAIN an_unit
                /\ an_unit.functions = <<>>
                /\ an_unit.classes = <<>>
                /\ an_unit.includes = {}
                /\ an_unit.namespaces = {}
          /\ an_opened = "ok" => "error" \notin DOMAIN an_unit

C19_Witness ==
    /\ an_pc = "done"
    /\ an_opened = "PermissionError"
    /\ an_unit.error = "[Errno 13] Permission denied"

(* C20: coverage report parsing never raises: a report line that cannot be  *)
(* parsed is ignored without affecting the totals from the other lines, and *)
(* a report with no parsable line yields line coverage 0.0.                 *)
RECURSIVE ParsableLines(_)
ParsableLines(lines) ==
    IF lines = <<>> THEN <<>>
    ELSE (IF Head(lines).kind = "summary" THEN <<Head(lines)>> ELSE <<>>)
            \o ParsableLines(Tail(lines))

C20_UnparsableLinesIgnored ==
    (cov_pc = "done" /\ cov_report # NoResult /\ ~HasError(cov_report)) =>
        /\ cov_report.line_coverage =
              LineCoverage(CoveredTotal(ParsableLines(coverage_output)),
                           TotalLines(ParsableLines(coverage_output)))
        /\ ParsableLines(coverage_output) = <<>> => cov_report.line_coverage = Zero

-----------------------------------------------------------------------------
(* Claims about repeated runs into one output directory                     *)

(* C21: the build descriptor is overwritten, not appended to, on every      *)
(* successful run: after any number of successful runs into the same output *)
(* directory its content is the content a single run leaves, whatever the   *)
(* file held before and whatever tests were generated.                      *)
SomeRunSucceeded == gen_result = "True" \/ \E i \in 1..Len(run_log) : run_log[i] = "0"

C21_DescriptorOverwritten ==
    SomeRunSucceeded =>
        /\ CMakeName \in DOMAIN out_dir.files
        /\ out_dir.files[CMakeName] = CMakeContent

C21_Witness ==
    /\ run_log = <<"0">>
    /\ gen_result = "True"
    /\ DOMAIN generated_tests = {<<"test_", "a", ".cpp">>}
    /\ <<"test_", "b", ".cpp">> \in DOMAIN out_dir.files
    /\ out_dir.files[<<"test_", "b", ".cpp">>] # <<"old">>
    /\ out_dir.files[CMakeName] = CMakeContent

(* C22: a run whose configuration file cannot be located is terminally      *)
(* failed: generation is requested for no source file, nothing is written   *)
(* and the process does not report success.                                 *)
C22_MissingConfigIsTerminal ==
    ~config_found =>
        /\ attempted = <<>>
        /\ gen_result # "True"
        /\ exit_code # "0"

(* C26: when a run has succeeded, every source file whose generation        *)
(* produced code has a test file of its own in the output directory that    *)
(* holds the code generated for it, also when two sources share the file    *)
(* stem in different directories or with different suffixes.                *)
C26_OwnTestFilePerSource ==
    gen_result = "True" =>
        \A i \in 1..Len(produced) :
            \E n \in TestFilesOf(out_dir) :
                /\ n \in DOMAIN generated_tests
                /\ generated_tests[n].source_file = produced[i]
                /\ out_dir.files[n] = generated_tests[n].code

(* C27: after any sequence of runs into one output directory the test files *)
(* present there, which the descriptor's test_*.cpp glob compiles, are      *)
(* exactly the tests of the most recent successful run; test files of       *)
(* earlier runs are gone.                                                   *)
C27_OnlyTestsOfLastSuccessfulRun ==
    gen_result = "True" => TestFilesOf(out_dir) = DOMAIN generated_tests

HasCode(r) == r # None /\ r.text # <<>>

\* the attempted files whose generation gave non-empty code, in order
RECURSIVE WithCode(_, _)
WithCode(files, results) ==
    IF files = <<>> THEN <<>>
    ELSE (IF HasCode(Head(results)) THEN <<Head(files)>> ELSE <<>>)
            \o WithCode(Tail(files), Tail(results))

(* C28: no empty test file is ever written: a source whose response was     *)
(* empty or whose extracted code is empty is skipped like one without a     *)
(* result, and it does not count towards the success of the run.            *)
C28_NoEmptyTestFile ==
    /\ Len(extracted) = Len(attempted)
    /\ produced = WithCode(attempted, extracted)
    /\ \A n \in DOMAIN generated_tests : generated_tests[n].code # <<>>
    /\ \A n \in TestFilesOf(out_dir) : out_dir.files[n] # <<>>
    /\ gen_result = "True" => \E i \in 1..Len(extracted) : HasCode(extracted[i])

C28_Witness ==
    /\ run_log = <<>>
    /\ gen_pc = "exited"
    /\ exit_code = "1"
    /\ Len(attempted) = 2
    /\ extracted = <<Text(<<>>), None>>
    /\ produced = <<>>
    /\ out_dir = [exists |-> FALSE, files |-> EmptyDict]

(* C29: a run that returns failure leaves the output directory as it was    *)
(* (not created, nothing written or overwritten): the directory changes     *)
(* only in the step that makes the run return True, and that step is taken  *)
(* only after generation was attempted for every source file found.         *)
C29_WritesOnlyOnSuccess ==
    [][out_dir' # out_dir =>
          /\ gen_result' = "True"
          /\ cpp_files # <<>>
          /\ Len(attempted) = Len(cpp_files)
          /\ \A i \in 1..Len(cpp_files) : attempted[i] = cpp_files[i]]_vars

C29_Witness ==
    /\ run_log = <<"0">>
    /\ gen_pc = "exited"
    /\ gen_result = "False"
    /\ Len(attempted) = 2
    /\ out_dir.exists
    /\ DOMAIN out_dir.files = {<<"test_", "a", ".cpp">>, CMakeName}
    /\ out_dir.files[<<"test_", "a", ".cpp">>] = <<"T1", WS, "T2">>

-----------------------------------------------------------------------------
(* Claims about the retry loop of LLMClient.generate                        *)

SuccessReply(reply) == reply.kind = "status" /\ reply.status = 200

FirstSuccess == {i \in 1..Len(replies) : SuccessReply(replies[i])}

CallsExpected ==
    IF FirstSuccess = {} \/ Min(FirstSuccess) > max_retries
        THEN max_retries
        ELSE Min(FirstSuccess)

(* C23: with a supported provider generate stops at the first successful    *)
(* attempt, returning that attempt's text without a further backend call;   *)
(* an attempt that ends with a non-success status or a transport failure is *)
(* followed by another one while fewer than max_retries were made; when     *)
(* generate returns it has made min(index of first success, max_retries)    *)
(* calls.                                                                   *)
C23_StopsAtFirstSuccess ==
    provider \in Supported =>
        /\ \A i \in 1..Len(replies) :
              IF SuccessReply(replies[i])
                  THEN /\ i = Len(replies)
                       /\ llm_pc = "returned"
                       /\ llm_result = Text(replies[i].body)
                  ELSE i < max_retries => (Len(replies) > i \/ llm_pc = "loop")
        /\ llm_pc = "returned" => Len(replies) = CallsExpected

C23_Witness ==
    /\ provider \in Supported
    /\ max_retries = 3
    /\ llm_pc = "returned"
    /\ Len(replies) = 2
    /\ replies[1] = [kind |-> "status", status |-> 500, body |-> <<"T1">>]
    /\ replies[2] = [kind |-> "status", status |-> 200, body |-> <<WS, "T1", WS, "T2", WS>>]
    /\ llm_result = Text(<<WS, "T1", WS, "T2", WS>>)

-----------------------------------------------------------------------------
(* Claims about the gcov invocations of CoverageAnalyzer                    *)

GcovSucceeded(outcome) ==
    /\ outcome.kind = "ran"
    /\ outcome.duration <= GcovTimeout
    /\ outcome.returncode = 0

\* the outputs of the successful invocations, in the order they were made
RECURSIVE OutputOfSuccessful(_)
OutputOfSuccessful(invocations) ==
    IF invocations = <<>> THEN <<>>
    ELSE (IF GcovSucceeded(Head(invocations).outcome)
              THEN Head(invocations).outcome.stdout \o <<Other>>
              ELSE <<>>)
            \o OutputOfSuccessful(Tail(invocations))

InstrumentationDataFiles == {f \in cov_fs : f.suffix = ".gcda"}

(* C24: gcov is invoked once per .gcda file under the build directory, each *)
(* time with that file's directory as working directory; the collected      *)
(* output is the concatenation of the outputs of the successful             *)
(* invocations, and an invocation that cannot start, exits nonzero or times *)
(* out adds nothing and does not keep the remaining files from being        *)
(* processed.                                                               *)
C24_GcovOncePerDataFile ==
    /\ \A i \in 1..Len(gcov_calls) :
          /\ gcov_calls[i].file \in InstrumentationDataFiles
          /\ gcov_calls[i].cwd = gcov_calls[i].file.dir
          /\ \A j \in 1..Len(gcov_calls) :
                gcov_calls[i].file = gcov_calls[j].file => i = j
    /\ coverage_output = OutputOfSuccessful(gcov_calls)
    /\ cov_pc = "done" =>
          {gcov_calls[i].file : i \in 1..Len(gcov_calls)} = InstrumentationDataFiles

C24_Witness ==
    /\ cov_pc = "done"
    /\ Len(gcov_calls) = 2
    /\ gcov_calls[1].outcome.kind = "ran"
    /\ gcov_calls[1].outcome.duration > GcovTimeout
    /\ gcov_calls[1].outcome.stdout = <<Other, Summary(1000, 1, 4)>>
    /\ GcovSucceeded(gcov_calls[2].outcome)
    /\ gcov_calls[2].cwd = <<"CMakeFiles">>
    /\ coverage_output = <<Summary(1840, 2, 375), Other>>

-----------------------------------------------------------------------------
(* Claims about build and run_tests as single attempts                      *)

(* C25: nothing is retried outside LLMClient.generate: one call of build    *)
(* starts the configure step at most once and the compile step at most      *)
(* once, one call of run_tests starts the test executable at most once,     *)
(* also when the step timed out or failed.                                  *)
C25_NoRetryOutsideGenerate ==
    /\ Len(configure_calls) <= 1
    /\ Len(compile_calls) <= 1
    /\ Len(exec_calls) <= 1
    /\ build_pc \in {"Failed", "Succeeded"} => build_result # NoResult
    /\ (tests_pc = "done" /\ exec_calls # <<>>) => tests_result # NoResult

C25_Witness ==
    /\ build_pc = "Failed"
    /\ Len(configure_calls) = 1
    /\ Run(configure_calls[1], ConfigureTimeout) = "TimeoutExpired"
    /\ compile_calls = <<>>
    /\ build_result.error = "CMake configuration timeout"

====
